---- MODULE Spec2Model ----
(***************************************************************************)
(* Model of ai_job_crew.py: a crew of four tasks run by a sequential       *)
(* process.  Each task binds an agent (a language-model capability, for    *)
(* two of them with one tool), an output contract (output_json) and an     *)
(* output file.  The contracts, the tools, the task list, the output files *)
(* and the kickoff inputs are taken from ai_job_crew.py; the engine that   *)
(* runs the task list (invoke, validate, persist, hand forward, fail) is   *)
(* not part of ai_job_crew.py and is modelled from the specification.      *)
(***************************************************************************)
EXTENDS Integers, Sequences, FiniteSets, TLC

(* ------------------------------ bounds -------------------------------- *)

\* raw stage-1 outputs carry up to NUM_QUERIES + ExtraQueries queries
ExtraQueries == 1
\* raw stage-2 outputs carry 0 .. 20 + ExtraResults results
ExtraResults == 1
\* raw stage-3 outputs carry 0 .. MaxJobs jobs
MaxJobs == 2
\* a task calls its tools at most MaxToolCalls times
MaxToolCalls == 2
\* the script is started at most MaxRuns times
MaxRuns == 2

(* --------------------------- configuration ---------------------------- *)

OUTPUT_DIR == "./ai-agent-output"

NUM_QUERIES == 10

VARIABLES
    inputs,      \* the parameter bundle given to kickoff
    runNo,       \* which start of the script this is
    status,      \* NOT_STARTED, RUNNING, COMPLETED, FAILED
    idx,         \* position of the engine in the task list (0: none)
    pc,          \* idle, ready (to invoke the capability), reasoning
    taskState,   \* per task: pending, running, done, failed
    toolCalls,   \* calls the running task has made to its tools
    context,     \* validated artifacts of this run, in the order produced
    files,       \* the output directory: path -> chunks written to the file
    log,         \* history: what happened in this run, in order
    written,     \* history: paths written during this run
    unreplaced   \* history: a write of this run found no file, or the same content

vars == <<inputs, runNo, status, idx, pc, taskState, toolCalls, context,
          files, log, written, unreplaced>>

(* ------------------------- schema contracts --------------------------- *)

\* A value is tagged with its kind: a string, an integer, a boolean, a float,
\* None, a list of values, or an object (a function from the names of its
\* present fields to values).  A string is held as the sequence of its code
\* points, so that it may hold any character.  An integer has no largest
\* value: it is held as its decimal numeral ("0", "7", "-12").  A float is
\* held as the numeral of its whole part and whether it has a fractional
\* part; a float that is not finite has no numeral ("inf", "nan").
StrVal(s) == [str |-> s]
IntVal(n) == [int |-> n]
BoolVal(b) == [bool |-> b]
FloatVal(whole, fractional) == [float |-> [whole |-> whole, fractional |-> fractional]]
NullVal == [null |-> "None"]
ListVal(s) == [list |-> s]
DictVal(f) == [dict |-> f]

IsStr(v) == DOMAIN v = {"str"}
IsInt(v) == DOMAIN v = {"int"}
IsBool(v) == DOMAIN v = {"bool"}
IsFloat(v) == DOMAIN v = {"float"}
IsNull(v) == DOMAIN v = {"null"}
IsList(v) == DOMAIN v = {"list"}
IsDict(v) == DOMAIN v = {"dict"}

Has(v, f) == IsDict(v) /\ f \in DOMAIN v.dict

Get(v, f) == v.dict[f]

\* field f is present and holds a string (a str field takes nothing else)
StrField(v, f) == Has(v, f) /\ IsStr(Get(v, f))

\* field f is present and holds a list of strings
StrListField(v, f) ==
    /\ Has(v, f)
    /\ IsList(Get(v, f))
    /\ \A i \in 1..Len(Get(v, f).list) : IsStr(Get(v, f).list[i])

\* the characters U+0020 to U+005F and U+0061 to U+007E, in order
AsciiLow == " !\"#$%&'()*+,-./0123456789:;<=>?@ABCDEFGHIJKLMNOPQRSTUVWXYZ[\\]^_"
AsciiHigh == "abcdefghijklmnopqrstuvwxyz{|}~"

\* the code point of a character written as a string of length 1
CodePoint(c) ==
    CASE c = "\t" -> 9
      [] c = "\n" -> 10
      [] c = "\f" -> 12
      [] c = "\r" -> 13
      [] \E i \in 1..Len(AsciiLow) : SubSeq(AsciiLow, i, i) = c ->
            31 + CHOOSE i \in 1..Len(AsciiLow) : SubSeq(AsciiLow, i, i) = c
      [] OTHER ->
            96 + CHOOSE i \in 1..Len(AsciiHigh) : SubSeq(AsciiHigh, i, i) = c

\* the code points of a text written as a string
Text(s) == [i \in 1..Len(s) |-> CodePoint(SubSeq(s, i, i))]

(* An int field takes an integer, a boolean, a float that is a whole number *)
(* within 64 bits, or a string that reads as an integer.  A string is read  *)
(* so: it is trimmed; one leading sign is set aside; leading zeros, with    *)
(* the underscores among them, are dropped; a decimal part of zeros is      *)
(* dropped; underscores between digits are dropped; what is left, with the  *)
(* sign, must be a decimal numeral.  An option is a sequence of length 0 or *)
(* 1.                                                                       *)

DigitChars == <<"0", "1", "2", "3", "4", "5", "6", "7", "8", "9">>

Digits == {CodePoint(DigitChars[i]) : i \in 1..Len(DigitChars)}

Zero == CodePoint("0")
Plus == CodePoint("+")
Minus == CodePoint("-")
Point == CodePoint(".")
Underscore == CodePoint("_")

DigitValue(c) == c - Zero

\* the white space a text is trimmed of: U+0009 to U+000D, U+0020, U+0085,
\* U+00A0, U+1680, U+2000 to U+200A, U+2028, U+2029, U+202F, U+205F, U+3000
Whitespace ==
    (9..13) \cup {32, 133, 160, 5760} \cup (8192..8202)
        \cup {8232, 8233, 8239, 8287, 12288}

\* the longest cleaned text an int field reads
INT_MAX_STR_SIZE == 4300

\* a float is taken when it lies strictly between -2^63 and 2^63
I64_BOUND == Text("9223372036854775808")

From(s, i) == SubSeq(s, i, Len(s))

AllIn(s, chars) == \A i \in 1..Len(s) : s[i] \in chars

\* the first position of s whose character is not in chars (Len(s) + 1 if none)
FirstNotIn(s, chars) ==
    CHOOSE i \in 1..(Len(s) + 1) :
        /\ i = Len(s) + 1 \/ s[i] \notin chars
        /\ \A j \in 1..(i - 1) : s[j] \in chars

\* the last position of s whose character is not in chars (0 if none)
LastNotIn(s, chars) ==
    CHOOSE i \in 0..Len(s) :
        /\ i = 0 \/ s[i] \notin chars
        /\ \A j \in (i + 1)..Len(s) : s[j] \in chars

trim(s) == SubSeq(s, FirstNotIn(s, Whitespace), LastNotIn(s, Whitespace))

HasSign(s) == Len(s) >= 1 /\ s[1] \in {Plus, Minus}

IsNegative(s) == Len(s) >= 1 /\ s[1] = Minus

Unsigned(s) == IF HasSign(s) THEN From(s, 2) ELSE s

\* after a leading zero, zeros and underscores are passed over up to the first
\* other digit or minus sign; before a point the character in front of it is
\* kept; a text of zeros and underscores only leaves its last character
strip_leading_zeros(s) ==
    IF Len(s) = 0 THEN <<>>
    ELSE IF s[1] \in Digits \ {Zero} THEN <<s>>
    ELSE IF s[1] # Zero THEN <<>>
    ELSE LET i == FirstNotIn(From(s, 2), {Zero, Underscore}) + 1
         IN  IF i > Len(s) THEN <<From(s, Len(s))>>
             ELSE IF s[i] \in (Digits \ {Zero}) \cup {Minus} THEN <<From(s, i)>>
             ELSE IF s[i] = Point THEN <<From(s, i - 1)>>
             ELSE <<>>

\* the positions of the points of a text
Points(s) == {i \in 1..Len(s) : s[i] = Point}

FirstPoint(s) == CHOOSE i \in Points(s) : \A j \in Points(s) : i <= j

\* a decimal part of one or more zeros, and nothing else, is dropped
strip_decimal_zeros(s) ==
    IF /\ Points(s) # {}
       /\ FirstPoint(s) < Len(s)
       /\ AllIn(From(s, FirstPoint(s) + 1), {Zero})
    THEN SubSeq(s, 1, FirstPoint(s) - 1)
    ELSE s

replace_underscores(s) == SelectSeq(s, LAMBDA c : c # Underscore)

HasDoubleUnderscore(s) ==
    \E i \in 1..(Len(s) - 1) : s[i] = Underscore /\ s[i + 1] = Underscore

\* underscores are dropped when none leads, none trails and no two are adjacent
strip_underscores(s) ==
    IF \/ Len(s) = 0
       \/ s[1] = Underscore
       \/ s[Len(s)] = Underscore
       \/ HasDoubleUnderscore(s)
    THEN s
    ELSE replace_underscores(s)

\* the text, trimmed, without its sign, cleaned; none when the text after the
\* sign does not start with a digit
clean_int_str(s) ==
    IF strip_leading_zeros(Unsigned(trim(s))) = <<>> THEN <<>>
    ELSE <<(IF IsNegative(trim(s)) THEN <<Minus>> ELSE <<>>)
              \o strip_underscores(strip_decimal_zeros(
                     strip_leading_zeros(Unsigned(trim(s)))[1]))>>

\* a decimal numeral: an optional minus sign and digits, with no leading zero
IsNumeral(s) ==
    /\ Len(Unsigned(s)) >= 1
    /\ ~(Len(s) >= 1 /\ s[1] = Plus)
    /\ AllIn(Unsigned(s), Digits)
    /\ Len(Unsigned(s)) = 1 \/ Unsigned(s)[1] # Zero

\* a numeral's text as the string that holds an integer
RECURSIVE Decimal(_)
Decimal(s) ==
    IF Len(s) = 0 THEN ""
    ELSE IF Len(s) = 1
         THEN (IF s[1] = Minus THEN "-" ELSE DigitChars[DigitValue(s[1]) + 1])
    ELSE Decimal(SubSeq(s, 1, Len(s) \div 2)) \o Decimal(From(s, (Len(s) \div 2) + 1))

\* the integer a numeral denotes ("-0" denotes 0)
Numeral(s) == IF Unsigned(s) = <<Zero>> THEN "0" ELSE Decimal(s)

\* the integer a text reads as, if any
str_as_int(str) ==
    IF clean_int_str(str) = <<>> THEN <<>>
    ELSE IF Len(clean_int_str(str)[1]) > INT_MAX_STR_SIZE THEN <<>>
    ELSE IF IsNumeral(clean_int_str(str)[1]) THEN <<Numeral(clean_int_str(str)[1])>>
    ELSE <<>>

\* of two numerals without sign, the first denotes the smaller number
NumeralLess(a, b) ==
    \/ Len(a) < Len(b)
    \/ /\ Len(a) = Len(b)
       /\ \E i \in 1..Len(a) :
             /\ SubSeq(a, 1, i - 1) = SubSeq(b, 1, i - 1)
             /\ a[i] < b[i]

\* the integer a float is, if it is a whole number within 64 bits
float_as_int(f) ==
    IF /\ ~f.fractional
       /\ IsNumeral(Text(f.whole))
       /\ NumeralLess(Unsigned(Text(f.whole)), I64_BOUND)
    THEN <<Numeral(Text(f.whole))>>
    ELSE <<>>

\* the integer an int field takes a value as, if any
validate_int(v) ==
    IF IsInt(v) THEN <<v.int>>
    ELSE IF IsBool(v) THEN <<IF v.bool THEN "1" ELSE "0">>
    ELSE IF IsFloat(v) THEN float_as_int(v.float)
    ELSE IF IsStr(v) THEN str_as_int(v.str)
    ELSE <<>>

IsIntLax(v) == validate_int(v) # <<>>

IntLax(v) == IntVal(validate_int(v)[1])

\* the upper bound taken as exclusive
SuggestedSearchQueries_exclusive(obj) ==
    /\ StrListField(obj, "queries")
    /\ Len(Get(obj, "queries").list) >= 1
    /\ Len(Get(obj, "queries").list) < NUM_QUERIES

SuggestedSearchQueries(obj) ==
    /\ StrListField(obj, "queries")
    /\ Len(Get(obj, "queries").list) >= 1
    /\ Len(Get(obj, "queries").list) <= NUM_QUERIES

\* the validated form holds the declared fields only
SuggestedSearchQueriesDump(obj) == DictVal([queries |-> Get(obj, "queries")])

SingleSearchResultFields == {"title", "url", "content", "search_query"}

SingleSearchResult(obj) == \A f \in SingleSearchResultFields : StrField(obj, f)

SingleSearchResultDump(obj) == DictVal([f \in SingleSearchResultFields |-> Get(obj, f)])

\* the lower bound taken as exclusive
AllSearchResults_exclusive(obj) ==
    /\ Has(obj, "results")
    /\ IsList(Get(obj, "results"))
    /\ Len(Get(obj, "results").list) > 20
    /\ \A i \in 1..Len(Get(obj, "results").list) :
          SingleSearchResult(Get(obj, "results").list[i])

AllSearchResults(obj) ==
    /\ Has(obj, "results")
    /\ IsList(Get(obj, "results"))
    /\ Len(Get(obj, "results").list) >= 20
    /\ \A i \in 1..Len(Get(obj, "results").list) :
          SingleSearchResult(Get(obj, "results").list[i])

AllSearchResultsDump(obj) ==
    DictVal([results |-> ListVal([i \in 1..Len(Get(obj, "results").list) |->
                               SingleSearchResultDump(Get(obj, "results").list[i])])])

JobSpecFields == {"specification_name", "specification_value"}

JobSpec(obj) == \A f \in JobSpecFields : StrField(obj, f)

JobSpecDump(obj) == DictVal([f \in JobSpecFields |-> Get(obj, f)])

SingleExtractedJobFields ==
    {"page_url", "job_title", "company_name", "location", "job_posting_url",
     "job_posting_date", "salary", "job_specs", "agent_recommendation_rank",
     "agent_recommendation_notes"}

\* the fields declared str without a default
SingleExtractedJobStrFields ==
    {"page_url", "job_title", "company_name", "location", "job_posting_url",
     "job_posting_date"}

\* fields declared with a default value
SingleExtractedJobDefaults == {"salary"}

JobSpecsField(obj) ==
    /\ Has(obj, "job_specs")
    /\ IsList(Get(obj, "job_specs"))
    /\ \A i \in 1..Len(Get(obj, "job_specs").list) : JobSpec(Get(obj, "job_specs").list[i])

\* salary declared without its default
SingleExtractedJob_salary_required(obj) ==
    /\ \A f \in SingleExtractedJobStrFields : StrField(obj, f)
    /\ StrField(obj, "salary")
    /\ JobSpecsField(obj)
    /\ Has(obj, "agent_recommendation_rank")
    /\ IsIntLax(Get(obj, "agent_recommendation_rank"))
    /\ StrListField(obj, "agent_recommendation_notes")

\* salary may be absent (the default None is not validated); when present it
\* is a str like the others
SingleExtractedJob(obj) ==
    /\ \A f \in SingleExtractedJobStrFields : StrField(obj, f)
    /\ Has(obj, "salary") => IsStr(Get(obj, "salary"))
    /\ JobSpecsField(obj)
    /\ Has(obj, "agent_recommendation_rank")
    /\ IsIntLax(Get(obj, "agent_recommendation_rank"))
    /\ StrListField(obj, "agent_recommendation_notes")

AllExtractedJobs(obj) ==
    /\ Has(obj, "jobs")
    /\ IsList(Get(obj, "jobs"))
    /\ \A i \in 1..Len(Get(obj, "jobs").list) : SingleExtractedJob(Get(obj, "jobs").list[i])

\* the validated form of a job: the declared fields only, an absent salary as
\* its default None, the rank as the integer it parsed to
SingleExtractedJobDump(obj) ==
    DictVal([f \in SingleExtractedJobFields |->
        CASE f \in SingleExtractedJobDefaults ->
                 IF Has(obj, f) THEN Get(obj, f) ELSE NullVal
          [] f = "agent_recommendation_rank" -> IntLax(Get(obj, f))
          [] f = "job_specs" ->
                 ListVal([i \in 1..Len(Get(obj, f).list) |-> JobSpecDump(Get(obj, f).list[i])])
          [] OTHER -> Get(obj, f)])

AllExtractedJobsDump(obj) ==
    DictVal([jobs |-> ListVal([i \in 1..Len(Get(obj, "jobs").list) |->
                            SingleExtractedJobDump(Get(obj, "jobs").list[i])])])

(* ------------------------------- tools -------------------------------- *)

\* what a collaborator does with one call: it returns a payload or raises
Payload == [payload |-> "provider data"]
Raise == [exception |-> "CollaboratorError"]
Responses == {Payload, Raise}

\* the tool catches what the search client raises and returns a message
search_engine_tool_swallowing(query, resp) ==
    IF resp = Raise THEN [error |-> "search failed"] ELSE resp

search_engine_tool(query, resp) == resp

web_scraping_tool(page_url, resp) ==
    IF resp = Raise THEN Raise ELSE [page_url |-> page_url, details |-> resp]

(* ------------------------------- tasks -------------------------------- *)

search_queries_recommendation_task == "search_queries_recommendation_task"
search_engine_task == "search_engine_task"
scraping_task == "scraping_task"
recruitment_report_author_task == "recruitment_report_author_task"

\* the search task listed before the task that suggests its queries
Tasks_swapped ==
    << search_engine_task, search_queries_recommendation_task,
       scraping_task, recruitment_report_author_task >>

\* the scraping task left out of the list
Tasks_without_scraping ==
    << search_queries_recommendation_task, search_engine_task,
       recruitment_report_author_task >>

Tasks ==
    << search_queries_recommendation_task, search_engine_task,
       scraping_task, recruitment_report_author_task >>

TaskNames ==
    { search_queries_recommendation_task, search_engine_task,
      scraping_task, recruitment_report_author_task }

Process == "sequential"

\* the search task declared without its output contract
output_json_search_unbound(task) ==
    CASE task = search_queries_recommendation_task -> "SuggestedSearchQueries"
      [] task = scraping_task -> "AllExtractedJobs"
      [] OTHER -> "None"

output_json(task) ==
    CASE task = search_queries_recommendation_task -> "SuggestedSearchQueries"
      [] task = search_engine_task -> "AllSearchResults"
      [] task = scraping_task -> "AllExtractedJobs"
      [] OTHER -> "None"

FileName(task) ==
    CASE task = search_queries_recommendation_task -> "step_1_suggested_job_search_queries.json"
      [] task = search_engine_task -> "step_2_job_search_results.json"
      [] task = scraping_task -> "step_3_extracted_jobs.json"
      [] OTHER -> "step_4_recruitment_report.html"

\* the scraping task given the search task's file name
output_file_shared(task) ==
    IF task = scraping_task
    THEN <<OUTPUT_DIR, FileName(search_engine_task)>>
    ELSE <<OUTPUT_DIR, FileName(task)>>

\* a path that carries the number of the run
output_file_versioned(task) == <<OUTPUT_DIR, FileName(task), runNo>>

output_file(task) == <<OUTPUT_DIR, FileName(task)>>

tools(task) ==
    CASE task = search_engine_task -> {"search_engine_tool"}
      [] task = scraping_task -> {"web_scraping_tool"}
      [] OTHER -> {}

ToolNames == {"search_engine_tool", "web_scraping_tool"}

\* no task names the tasks whose outputs it wants as context
NOT_SPECIFIED == {"NOT_SPECIFIED"}

\* the scraping task given the search task alone as its context
task_context_scraping_narrowed(task) ==
    IF task = scraping_task THEN {search_engine_task} ELSE NOT_SPECIFIED

task_context(task) == NOT_SPECIFIED

\* the named placeholders of a task's description
Placeholders(task) ==
    IF task = search_queries_recommendation_task
    THEN {"no_keywords", "jobs_titles", "country_name", "language"}
    ELSE {}

KickoffInputs ==
    [jobs_titles |-> "AI/ML Engineer", country_name |-> "Egypt",
     no_keywords |-> NUM_QUERIES, language |-> "English"]

\* the output directory is created when absent; what it holds is kept
makedirs(fs) == fs

(* ------------------- what a capability may answer --------------------- *)

QueryTexts ==
    << "q1", "q2", "q3", "q4", "q5", "q6", "q7", "q8", "q9", "q10", "q11",
       "q12", "q13", "q14", "q15", "q16" >>

\* a list of n query strings
Queries(n) == ListVal([i \in 1..n |-> StrVal(Text(QueryTexts[((i - 1) % Len(QueryTexts)) + 1]))])

\* the list lengths the agent is made to answer with: around the lower bound
\* of the contract and around its upper bound
QueryCounts == {0, 1} \cup (NUM_QUERIES..(NUM_QUERIES + ExtraQueries))

RawQueries ==
    {DictVal([queries |-> Queries(n)]) : n \in QueryCounts}
        \cup {DictVal([query |-> Queries(1)]),
              DictVal([queries |-> Queries(1), comment |-> StrVal(Text("s"))]),
              DictVal([queries |-> ListVal(<<IntVal("1")>>)]),
              DictVal([queries |-> StrVal(Text("q1"))])}

GoodResult == DictVal([f \in SingleSearchResultFields |-> StrVal(Text("s"))])

ResultMissing(f) == DictVal([g \in SingleSearchResultFields \ {f} |-> StrVal(Text("s"))])

ResultWith(f, v) ==
    DictVal([g \in SingleSearchResultFields |-> IF g = f THEN v ELSE StrVal(Text("s"))])

ResultSamples ==
    {ResultMissing(f) : f \in SingleSearchResultFields}
        \cup {ResultWith("title", IntVal("1")), ResultWith("title", NullVal)}

RawResults ==
    {DictVal([results |-> ListVal([i \in 1..n |-> GoodResult])]) : n \in 0..(20 + ExtraResults)}
        \cup {DictVal([results |-> ListVal([i \in 1..n |-> IF i = n THEN r ELSE GoodResult])]) :
                 n \in 19..(20 + ExtraResults), r \in ResultSamples}
        \cup {DictVal([result |-> ListVal(<<GoodResult>>)])}

GoodSpec == DictVal([f \in JobSpecFields |-> StrVal(Text("s"))])

FieldValue(f) ==
    CASE f = "job_specs" -> ListVal(<<GoodSpec>>)
      [] f = "agent_recommendation_rank" -> IntVal("1")
      [] f = "agent_recommendation_notes" -> ListVal(<<StrVal(Text("s"))>>)
      [] OTHER -> StrVal(Text("s"))

GoodJob == DictVal([f \in SingleExtractedJobFields |-> FieldValue(f)])

JobMissing(f) == DictVal([g \in SingleExtractedJobFields \ {f} |-> FieldValue(g)])

JobWith(f, v) ==
    DictVal([g \in SingleExtractedJobFields |-> IF g = f THEN v ELSE FieldValue(g)])

JobBadSpec ==
    JobWith("job_specs", ListVal(<<DictVal([specification_name |-> StrVal(Text("s"))])>>))

JobSamples ==
    {GoodJob, JobBadSpec}
        \cup {JobMissing(f) : f \in SingleExtractedJobFields}
        \cup {JobWith("salary", NullVal),
              JobWith("agent_recommendation_rank", StrVal(Text("senior"))),
              JobWith("agent_recommendation_rank", StrVal(Text("7."))),
              JobWith("agent_recommendation_rank", FloatVal("7", TRUE)),
              JobWith("agent_recommendation_rank", BoolVal(TRUE)),
              JobWith("agent_recommendation_rank", StrVal(<<8195>> \o Text("-01_0.0"))),
              JobWith("agent_recommendation_notes", StrVal(Text("s"))),
              JobWith("job_specs",
                      ListVal(<<DictVal([f \in JobSpecFields |->
                                      IF f = "specification_name" THEN IntVal("1") ELSE StrVal(Text("s"))])>>))}

RawJobs ==
    {DictVal([jobs |-> ListVal([i \in 1..n |-> GoodJob])]) : n \in 0..MaxJobs}
        \cup {DictVal([jobs |-> ListVal([i \in 1..MaxJobs |-> IF i = MaxJobs THEN j ELSE GoodJob])]) :
                 j \in JobSamples}

RawReport == {StrVal(Text("report")), StrVal(Text("report of no job"))}

RawOutputs(task) ==
    CASE task = search_queries_recommendation_task -> RawQueries
      [] task = search_engine_task -> RawResults
      [] task = scraping_task -> RawJobs
      [] OTHER -> RawReport

(* ------------------------------ engine -------------------------------- *)

Valid(task, obj) ==
    CASE output_json(task) = "SuggestedSearchQueries" -> SuggestedSearchQueries(obj)
      [] output_json(task) = "AllSearchResults" -> AllSearchResults(obj)
      [] output_json(task) = "AllExtractedJobs" -> AllExtractedJobs(obj)
      [] OTHER -> TRUE

Dump(task, obj) ==
    CASE output_json(task) = "SuggestedSearchQueries" -> SuggestedSearchQueriesDump(obj)
      [] output_json(task) = "AllSearchResults" -> AllSearchResultsDump(obj)
      [] output_json(task) = "AllExtractedJobs" -> AllExtractedJobsDump(obj)
      [] OTHER -> obj

ToolResult(tool, resp) ==
    IF tool = "search_engine_tool"
    THEN search_engine_tool("query", resp)
    ELSE web_scraping_tool("page_url", resp)

\* the file is opened for writing: what it held is replaced
Write(fs, path, chunk) ==
    [p \in DOMAIN fs \cup {path} |-> IF p = path THEN <<chunk>> ELSE fs[p]]

InTaskContext(task, e) ==
    task_context(task) = NOT_SPECIFIED \/ e.task \in task_context(task)

ContextFor(task) == SelectSeq(context, LAMBDA e : InTaskContext(task, e))

\* the description of a task with the parameters put in place of its placeholders
Rendered(task) == [p \in Placeholders(task) |-> inputs[p]]

Current == Tasks[idx]

NoFiles == [p \in {} |-> <<>>]

Event(ev, task, arg) == [ev |-> ev, task |-> task, arg |-> arg]

Init ==
    /\ inputs = KickoffInputs
    /\ runNo = 1
    /\ status = "NOT_STARTED"
    /\ idx = 0
    /\ pc = "idle"
    /\ taskState = [t \in TaskNames |-> "pending"]
    /\ toolCalls = 0
    /\ context = <<>>
    /\ files = makedirs(NoFiles)
    /\ log = <<>>
    /\ written = {}
    /\ unreplaced = FALSE

\* rankyx_crew.kickoff(inputs): every placeholder has a value, and the engine
\* takes the first task of the list
Kickoff ==
    /\ status = "NOT_STARTED"
    /\ Process = "sequential"
    /\ Len(Tasks) >= 1
    /\ \A i \in 1..Len(Tasks) : Placeholders(Tasks[i]) \subseteq DOMAIN inputs
    /\ status' = "RUNNING"
    /\ idx' = 1
    /\ pc' = "ready"
    /\ UNCHANGED <<inputs, runNo, taskState, toolCalls, context, files,
                   log, written, unreplaced>>

\* the current task's capability is invoked with the rendered description and
\* the context
Invoke ==
    /\ status = "RUNNING"
    /\ pc = "ready"
    /\ pc' = "reasoning"
    /\ taskState' = [taskState EXCEPT ![Current] = "running"]
    /\ toolCalls' = 0
    /\ log' = Append(log, Event("invoke", Current,
                 [inputs |-> inputs, rendered |-> Rendered(Current),
                  context |-> ContextFor(Current)]))
    /\ UNCHANGED <<inputs, runNo, status, idx, context, files, written,
                   unreplaced>>

Fail ==
    /\ status' = "FAILED"
    /\ pc' = "idle"
    /\ taskState' = [taskState EXCEPT ![Current] = "failed"]

\* the capability calls one of the task's tools, which returns
ToolReturns(tool) ==
    /\ status = "RUNNING"
    /\ pc = "reasoning"
    /\ tool \in tools(Current)
    /\ toolCalls < MaxToolCalls
    /\ \E resp \in Responses :
          /\ ToolResult(tool, resp) # Raise
          /\ log' = Append(log, Event("tool", Current, [tool |-> tool, resp |-> resp]))
    /\ toolCalls' = toolCalls + 1
    /\ UNCHANGED <<inputs, runNo, status, idx, pc, taskState, context,
                   files, written, unreplaced>>

\* the capability calls one of the task's tools, which raises: the run fails
ToolRaises(tool) ==
    /\ status = "RUNNING"
    /\ pc = "reasoning"
    /\ tool \in tools(Current)
    /\ toolCalls < MaxToolCalls
    /\ \E resp \in Responses :
          /\ ToolResult(tool, resp) = Raise
          /\ log' = Append(log, Event("tool", Current, [tool |-> tool, resp |-> resp]))
    /\ toolCalls' = toolCalls + 1
    /\ Fail
    /\ UNCHANGED <<inputs, runNo, idx, context, files, written, unreplaced>>

\* the language-model backend fails: the run fails
CapabilityRaises ==
    /\ status = "RUNNING"
    /\ pc = "reasoning"
    /\ log' = Append(log, Event("capability", Current, [resp |-> Raise]))
    /\ Fail
    /\ UNCHANGED <<inputs, runNo, idx, toolCalls, context, files, written,
                   unreplaced>>

\* the capability returns its final answer, which meets the task's contract:
\* it is written to the task's file and handed forward, and the engine takes
\* the next task or completes
StageSucceeds ==
    /\ status = "RUNNING"
    /\ pc = "reasoning"
    /\ \E raw \in {r \in RawOutputs(Current) : Valid(Current, r)} :
          /\ log' = Append(log, Event("validate", Current, [raw |-> raw, ok |-> TRUE]))
          /\ files' = Write(files, output_file(Current), Dump(Current, raw))
          /\ unreplaced' =
                \/ unreplaced
                \/ output_file(Current) \notin DOMAIN files
                \/ files[output_file(Current)] = <<Dump(Current, raw)>>
          /\ context' = Append(context, [task |-> Current, output |-> Dump(Current, raw)])
    /\ written' = written \cup {output_file(Current)}
    /\ taskState' = [taskState EXCEPT ![Current] = "done"]
    /\ toolCalls' = 0
    /\ IF idx < Len(Tasks)
       THEN /\ idx' = idx + 1
            /\ pc' = "ready"
            /\ status' = "RUNNING"
       ELSE /\ idx' = idx
            /\ pc' = "idle"
            /\ status' = "COMPLETED"
    /\ UNCHANGED <<inputs, runNo>>

\* the capability returns its final answer, which does not meet the task's
\* contract: the run fails
StageFailsValidation ==
    /\ status = "RUNNING"
    /\ pc = "reasoning"
    /\ \E raw \in {r \in RawOutputs(Current) : ~Valid(Current, r)} :
          /\ log' = Append(log, Event("validate", Current, [raw |-> raw, ok |-> FALSE]))
    /\ Fail
    /\ UNCHANGED <<inputs, runNo, idx, toolCalls, context, files, written,
                   unreplaced>>

\* the script is started again with the same parameters: a new process, the
\* same output directory
Rerun ==
    /\ status \in {"COMPLETED", "FAILED"}
    /\ runNo < MaxRuns
    /\ runNo' = runNo + 1
    /\ status' = "NOT_STARTED"
    /\ idx' = 0
    /\ pc' = "idle"
    /\ taskState' = [t \in TaskNames |-> "pending"]
    /\ toolCalls' = 0
    /\ context' = <<>>
    /\ files' = makedirs(files)
    /\ log' = <<>>
    /\ written' = {}
    /\ unreplaced' = FALSE
    /\ UNCHANGED inputs

Next ==
    \/ Kickoff
    \/ Invoke
    \/ \E tool \in ToolNames : ToolReturns(tool)
    \/ \E tool \in ToolNames : ToolRaises(tool)
    \/ CapabilityRaises
    \/ StageSucceeds
    \/ StageFailsValidation
    \/ Rerun

Spec == Init /\ [][Next]_vars

\* the query budgets a run may be given: a positive integer up to the cap
Budgets == 1..NUM_QUERIES

\* one run of the crew, kicked off with any of the budgets
InitBudget ==
    /\ inputs \in {[KickoffInputs EXCEPT !["no_keywords"] = b] : b \in Budgets}
    /\ runNo = 1
    /\ status = "NOT_STARTED"
    /\ idx = 0
    /\ pc = "idle"
    /\ taskState = [t \in TaskNames |-> "pending"]
    /\ toolCalls = 0
    /\ context = <<>>
    /\ files = makedirs(NoFiles)
    /\ log = <<>>
    /\ written = {}
    /\ unreplaced = FALSE

NextRun ==
    \/ Kickoff
    \/ Invoke
    \/ \E tool \in ToolNames : ToolReturns(tool)
    \/ \E tool \in ToolNames : ToolRaises(tool)
    \/ CapabilityRaises
    \/ StageSucceeds
    \/ StageFailsValidation

SpecBudget == InitBudget /\ [][NextRun]_vars

(* ============================== claims ================================ *)

\* The stages of the pipeline, numbered as the specification numbers them.
StageTask(n) ==
    CASE n = 1 -> search_queries_recommendation_task
      [] n = 2 -> search_engine_task
      [] n = 3 -> scraping_task
      [] OTHER -> recruitment_report_author_task

StagePath(n) == <<OUTPUT_DIR, FileName(StageTask(n))>>

FourPaths == {StagePath(n) : n \in 1..4}

\* the schema contract of stage n (stage 4 has none)
Contract(n, obj) ==
    CASE n = 1 -> SuggestedSearchQueries(obj)
      [] n = 2 -> AllSearchResults(obj)
      [] n = 3 -> AllExtractedJobs(obj)
      [] OTHER -> TRUE

IsInvoke(k, n) == log[k].ev = "invoke" /\ log[k].task = StageTask(n)

IsToolCall(k, tool) == log[k].ev = "tool" /\ log[k].arg.tool = tool

IsValidation(k, n) == log[k].ev = "validate" /\ log[k].task = StageTask(n)

\* before event k, stage n's output passed stage n's contract
PassedBefore(n, k) ==
    \E j \in 1..(k - 1) :
        /\ IsValidation(j, n)
        /\ log[j].arg.ok
        /\ Contract(n, log[j].arg.raw)

Running == {t \in TaskNames : taskState[t] = "running"}

\* the tasks whose capability was invoked in this run, in order
Entered == [k \in 1..Len(SelectSeq(log, LAMBDA e : e.ev = "invoke")) |->
               SelectSeq(log, LAMBDA e : e.ev = "invoke")[k].task]

Terminal == {"COMPLETED", "FAILED"}

\* C1: for N in 2..4, stage N's capability is not invoked and stage N's tool is
\* not called until stage N-1's output has passed its contract; at most one
\* stage is running; stage 2 is not entered while no valid stage-1 artifact exists.
C1_Ordering ==
    /\ \A k \in 1..Len(log) : \A n \in 2..4 :
          IsInvoke(k, n) => PassedBefore(n - 1, k)
    /\ \A k \in 1..Len(log) :
          /\ IsToolCall(k, "search_engine_tool") =>
                log[k].task = StageTask(2) /\ PassedBefore(1, k)
          /\ IsToolCall(k, "web_scraping_tool") =>
                log[k].task = StageTask(3) /\ PassedBefore(2, k)
    /\ Cardinality(Running) <= 1
    /\ taskState[StageTask(2)] # "pending" =>
          /\ Len(context) >= 1
          /\ context[1].task = StageTask(1)
          /\ SuggestedSearchQueries(context[1].output)
          /\ StagePath(1) \in written

\* C1 witness: the scraping tool was called, after stages 1 and 2 passed.
C1_Witness ==
    \E k \in 1..Len(log) : IsToolCall(k, "web_scraping_tool") /\ PassedBefore(2, k)

\* C2: when the raw output of stage i (i in 1..3) fails its contract, the run
\* is FAILED and nothing follows (no regeneration, no retry), no artifact of
\* stage i or of a later stage is written in the run, and the output is not
\* handed forward.
C2_ValidationFatal ==
    \A k \in 1..Len(log) : \A n \in 1..3 :
        (IsValidation(k, n) /\ ~Contract(n, log[k].arg.raw)) =>
            /\ status = "FAILED"
            /\ k = Len(log)
            /\ \A m \in n..4 : StagePath(m) \notin written
            /\ \A i \in 1..Len(context) : context[i].task # StageTask(n)

\* C2 witness: stage 2's output failed its contract after stage 1 was persisted.
C2_Witness ==
    /\ status = "FAILED"
    /\ Len(log) >= 1
    /\ IsValidation(Len(log), 2)
    /\ ~AllSearchResults(log[Len(log)].arg.raw)
    /\ StagePath(1) \in written

\* C3: when the search collaborator raises on a call of search_engine_tool, the
\* run is FAILED with nothing following the call (no retry, not swallowed), and
\* no stage-3 and no stage-4 artifact is written in the run.
C3_SearchFailureFatal ==
    \A k \in 1..Len(log) :
        (IsToolCall(k, "search_engine_tool") /\ log[k].arg.resp = Raise) =>
            /\ status = "FAILED"
            /\ k = Len(log)
            /\ StagePath(3) \notin written
            /\ StagePath(4) \notin written

\* C3 witness: the search collaborator raised on the second call of stage 2,
\* after a call that returned.
C3_Witness ==
    /\ Len(log) >= 2
    /\ IsToolCall(Len(log), "search_engine_tool")
    /\ log[Len(log)].arg.resp = Raise
    /\ log[Len(log)].task = StageTask(2)
    /\ IsToolCall(Len(log) - 1, "search_engine_tool")
    /\ log[Len(log) - 1].arg.resp = Payload
    /\ status = "FAILED"

\* the number of entries of the query list (0 when there is no list)
QueryCount(obj) ==
    IF Has(obj, "queries") /\ IsList(Get(obj, "queries"))
    THEN Len(Get(obj, "queries").list)
    ELSE 0

\* the output is an object whose queries field is a list of strings
IsQueryList(obj) ==
    /\ Has(obj, "queries")
    /\ IsList(Get(obj, "queries"))
    /\ \A i \in 1..Len(Get(obj, "queries").list) : IsStr(Get(obj, "queries").list[i])

\* the output with its declared field only
DeclaredQueries(obj) == DictVal([queries |-> Get(obj, "queries")])

\* C4 as stated: for every budget, a raw stage-1 output is rejected when its
\* query list has fewer than 1 or more than the budget of queries, and is
\* accepted unchanged when the count is within 1..budget.
C4_AsStated ==
    \A k \in 1..Len(log) :
        IsValidation(k, 1) =>
            /\ (\/ QueryCount(log[k].arg.raw) < 1
                \/ QueryCount(log[k].arg.raw) > inputs["no_keywords"])
                  => ~log[k].arg.ok
            /\ (/\ QueryCount(log[k].arg.raw) >= 1
                /\ QueryCount(log[k].arg.raw) <= inputs["no_keywords"])
                  => /\ log[k].arg.ok
                     /\ context[1] = [task |-> StageTask(1), output |-> log[k].arg.raw]
                     /\ files[StagePath(1)] = <<log[k].arg.raw>>

\* C4, amended: for every budget, a raw stage-1 output is rejected when its
\* query list has fewer than 1 or more than NUM_QUERIES queries, and a list of
\* query strings whose count is within 1..NUM_QUERIES is accepted; what is
\* persisted and handed forward is the list unchanged, without any other field
\* the output carried.
C4_QueryBudget ==
    \A k \in 1..Len(log) :
        IsValidation(k, 1) =>
            /\ (\/ QueryCount(log[k].arg.raw) < 1
                \/ QueryCount(log[k].arg.raw) > NUM_QUERIES)
                  => ~log[k].arg.ok
            /\ (/\ IsQueryList(log[k].arg.raw)
                /\ QueryCount(log[k].arg.raw) >= 1
                /\ QueryCount(log[k].arg.raw) <= NUM_QUERIES)
                  => log[k].arg.ok
            /\ log[k].arg.ok =>
                  /\ context[1] = [task |-> StageTask(1),
                                   output |-> DeclaredQueries(log[k].arg.raw)]
                  /\ files[StagePath(1)] = <<DeclaredQueries(log[k].arg.raw)>>

\* C4 witness: with a budget below NUM_QUERIES, an output with more queries
\* than the budget was accepted, and an output with another field was
\* accepted without it.
C4_Witness ==
    /\ inputs["no_keywords"] < NUM_QUERIES
    /\ \E k \in 1..Len(log) :
          /\ IsValidation(k, 1)
          /\ QueryCount(log[k].arg.raw) > inputs["no_keywords"]
          /\ log[k].arg.ok
          /\ context[1].output = DeclaredQueries(log[k].arg.raw)

\* every entry of the result list has the four fields
WellFormedResults(obj) ==
    /\ Has(obj, "results")
    /\ IsList(Get(obj, "results"))
    /\ \A i \in 1..Len(Get(obj, "results").list) :
          \A f \in {"title", "url", "content", "search_query"} :
              /\ Has(Get(obj, "results").list[i], f)
              /\ IsStr(Get(Get(obj, "results").list[i], f))

\* the number of entries of the result list (0 when there is no list)
ResultCount(obj) ==
    IF Has(obj, "results") /\ IsList(Get(obj, "results"))
    THEN Len(Get(obj, "results").list)
    ELSE 0

\* C5: a raw stage-2 output with fewer than 20 entries is rejected, whether or
\* not every entry has the four fields; one with 20 or more entries, each with
\* the four fields, is accepted.
C5_MinimumResults ==
    \A k \in 1..Len(log) :
        IsValidation(k, 2) =>
            /\ ResultCount(log[k].arg.raw) < 20 => ~log[k].arg.ok
            /\ (WellFormedResults(log[k].arg.raw) /\ ResultCount(log[k].arg.raw) >= 20)
                  => log[k].arg.ok

\* C5 witness: a list of 19 well-formed results was rejected.
C5_Witness ==
    \E k \in 1..Len(log) :
        /\ IsValidation(k, 2)
        /\ WellFormedResults(log[k].arg.raw)
        /\ ResultCount(log[k].arg.raw) = 19
        /\ ~log[k].arg.ok

NineFields ==
    {"page_url", "job_title", "company_name", "location", "job_posting_url",
     "job_posting_date", "job_specs", "agent_recommendation_rank",
     "agent_recommendation_notes"}

\* the candidate's fields other than salary hold values of the declared
\* kinds, and so does salary when the candidate carries it
WellFormedJob(job) ==
    /\ \A f \in {"page_url", "job_title", "company_name", "location",
                  "job_posting_url", "job_posting_date"} :
          Has(job, f) /\ IsStr(Get(job, f))
    /\ Has(job, "salary") => IsStr(Get(job, "salary"))
    /\ Has(job, "job_specs")
    /\ IsList(Get(job, "job_specs"))
    /\ \A i \in 1..Len(Get(job, "job_specs").list) :
          \A f \in {"specification_name", "specification_value"} :
              /\ Has(Get(job, "job_specs").list[i], f)
              /\ IsStr(Get(Get(job, "job_specs").list[i], f))
    /\ Has(job, "agent_recommendation_rank")
    /\ IsInt(Get(job, "agent_recommendation_rank"))
    /\ Has(job, "agent_recommendation_notes")
    /\ IsList(Get(job, "agent_recommendation_notes"))
    /\ \A i \in 1..Len(Get(job, "agent_recommendation_notes").list) :
          IsStr(Get(job, "agent_recommendation_notes").list[i])

\* C6: a stage-3 output is rejected when one of its candidates lacks one of
\* the nine fields, and accepted when each of its candidates holds the nine
\* fields, salary being absent or not.
C6_RequiredFields ==
    \A k \in 1..Len(log) :
        (/\ IsValidation(k, 3)
         /\ Has(log[k].arg.raw, "jobs")
         /\ IsList(Get(log[k].arg.raw, "jobs"))) =>
            LET jobs == Get(log[k].arg.raw, "jobs").list IN
            /\ (\E i \in 1..Len(jobs) : \E f \in NineFields : ~Has(jobs[i], f))
                  => ~log[k].arg.ok
            /\ (\A i \in 1..Len(jobs) : WellFormedJob(jobs[i]))
                  => log[k].arg.ok

\* C6 witness: an output was accepted in which a candidate lacks salary and
\* nothing else.
C6_Witness ==
    \E k \in 1..Len(log) :
        /\ IsValidation(k, 3)
        /\ log[k].arg.ok
        /\ \E i \in 1..Len(Get(log[k].arg.raw, "jobs").list) :
              DOMAIN Get(log[k].arg.raw, "jobs").list[i].dict = NineFields

C7_State ==
    /\ status \in {"NOT_STARTED", "RUNNING"} \cup Terminal
    /\ Len(Entered) <= 4
    /\ \A k \in 1..Len(Entered) : Entered[k] = StageTask(k)
    /\ status = "NOT_STARTED" => Entered = <<>>
    /\ status = "COMPLETED" =>
          /\ Len(Entered) = 4
          /\ Len(context) = 4
          /\ StagePath(4) \in written
          /\ files[StagePath(4)] = <<context[4].output>>

C7_Step ==
    /\ (status \in Terminal /\ runNo' = runNo) => UNCHANGED vars
    /\ (status = "NOT_STARTED" /\ runNo' = runNo) => status' \in {"NOT_STARTED", "RUNNING"}
    /\ (status = "RUNNING" /\ status' = "COMPLETED") =>
          /\ taskState[StageTask(4)] = "running"
          /\ StagePath(4) \in written'
    /\ (status = "RUNNING" /\ status' = "FAILED") => Cardinality(Running) = 1

\* C7: the stages of a run are entered in the order 1, 2, 3, 4, none twice and
\* none skipped; a run leaves RUNNING for FAILED or, after stage 4's artifact is
\* persisted, for COMPLETED; COMPLETED and FAILED have no outgoing transition.
C7_Lifecycle == []C7_State /\ [][C7_Step]_vars

\* C7 witness: a run completed.
C7_Witness == status = "COMPLETED" /\ Len(Entered) = 4

C8_State ==
    status = "FAILED" =>
        \A i \in 1..Len(context) :
            /\ output_file(context[i].task) \in DOMAIN files
            /\ files[output_file(context[i].task)] = <<context[i].output>>

C8_Step == (status = "RUNNING" /\ status' = "FAILED") => files' = files

\* C8: when a stage fails, the artifacts persisted by the earlier stages of the
\* run are on disk as they were written: the transition to FAILED changes no file.
C8_NoRollback == []C8_State /\ [][C8_Step]_vars

\* C8 witness: stage 4 failed with the artifacts of stages 1..3 on disk.
C8_Witness ==
    /\ status = "FAILED"
    /\ taskState[StageTask(4)] = "failed"
    /\ \A n \in 1..3 : StagePath(n) \in written

C9_State ==
    /\ \A i \in 1..Len(context) :
          /\ context[i].task = StageTask(i)
          /\ \E j \in 1..Len(log) :
                /\ IsValidation(j, i)
                /\ log[j].arg.ok
                /\ Contract(i, log[j].arg.raw)
                /\ context[i].output = Dump(StageTask(i), log[j].arg.raw)
    /\ \A k \in 1..Len(log) : \A n \in 1..4 :
          IsInvoke(k, n) =>
              /\ log[k].arg.inputs = KickoffInputs
              /\ Len(context) >= n - 1
              /\ log[k].arg.context = SubSeq(context, 1, n - 1)

C9_Step ==
    runNo' = runNo =>
        /\ Len(context') \in {Len(context), Len(context) + 1}
        /\ SubSeq(context', 1, Len(context)) = context

\* C9: stage k is invoked with the initial parameters and the validated
\* artifacts of stages 1..k-1 in stage order; during a run the context only
\* grows, by one validated artifact at a time, and no entry changes.
C9_Context == []C9_State /\ [][C9_Step]_vars

\* C9 witness: stage 4 was invoked with the three earlier artifacts.
C9_Witness ==
    \E k \in 1..Len(log) : IsInvoke(k, 4) /\ Len(log[k].arg.context) = 3

\* C10: after a completed run, a second one included, the files are the four
\* fixed paths and each holds exactly that run's artifact of its stage.
C10_Overwrite ==
    status = "COMPLETED" =>
        /\ DOMAIN files = FourPaths
        /\ \A n \in 1..4 : files[StagePath(n)] = <<context[n].output>>

\* C10 witness: a second run completed and replaced different content at each
\* of the four paths.
C10_Witness ==
    /\ runNo = 2
    /\ status = "COMPLETED"
    /\ ~unreplaced

====
